---- MODULE Spec2Model ----
(***************************************************************************)
(* Payment admission and settlement of the x402 gateway: the wallet        *)
(* resolution and billing middlewares of src/src/server.ts, the payment    *)
(* guard of src/src/middleware/payment.ts and the credit ledger of         *)
(* src/packages/gateway-ledger/ledger.js.                                  *)
(*                                                                         *)
(* One action is one run of the code between two suspension points (an     *)
(* await of a ledger call, of a facilitator call, or of the upstream       *)
(* fetch of a proxy handler).                                              *)
(***************************************************************************)
EXTENDS Integers, Sequences, FiniteSets, Bags, TLC

\* Number of requests the gateway receives (they may all be in flight together).
MaxReqs == 2

\* Number of store (Supabase) calls that fail in one run.
MaxFaults == 1

Reqs == 1..MaxReqs

(***************************************************************************)
(* Strings that the code converts are sequences of characters.             *)
(***************************************************************************)
SP == " "

RECURSIVE TrimStart(_)
TrimStart(s) == IF s # <<>> /\ Head(s) = SP THEN TrimStart(Tail(s)) ELSE s

RECURSIVE TrimEnd(_)
TrimEnd(s) ==
    IF s # <<>> /\ s[Len(s)] = SP THEN TrimEnd(SubSeq(s, 1, Len(s) - 1)) ELSE s

\* String.prototype.trim
Trim(s) == TrimEnd(TrimStart(s))

Digit(d) == CASE d = 0 -> "0" [] d = 1 -> "1" [] d = 2 -> "2" [] d = 3 -> "3"
              [] d = 4 -> "4" [] d = 5 -> "5" [] d = 6 -> "6" [] d = 7 -> "7"
              [] d = 8 -> "8" [] d = 9 -> "9"

\* String(n) of a non-negative integer: its decimal digits.
RECURSIVE DecString(_)
DecString(n) == IF n < 10 THEN <<Digit(n)>> ELSE Append(DecString(n \div 10), Digit(n % 10))

\* method.toUpperCase() of an HTTP method
ToUpperCase(m) == CASE m = "get" -> "GET" [] m = "post" -> "POST" [] OTHER -> m

(***************************************************************************)
(* Pricing catalog.  priceUsd is a decimal with two places; it is kept in  *)
(* hundredths of a dollar (0.06 is 6).  Paths are sequences of segments.   *)
(***************************************************************************)
PathChat == <<"openai", "chat", "completions">>
PathCompletions == <<"openai", "completions">>
PathImages == <<"openai", "images", "generations">>
PathModels == <<"openai", "models">>
PathClaude == <<"claude", "messages">>
PathSheetsGet == <<"google-sheets", "values", "get">>
PathSheetsUpdate == <<"google-sheets", "values", "update">>
PathSheetsAppend == <<"google-sheets", "values", "append">>
PathRoot == <<>>
PathFacilitatorOther == <<"facilitator", "status">>
PathFacilitatorVerify == <<"facilitator", "verify">>
PathAdminTest == <<"admin", "test-openai">>

pricingConfig ==
    << [method |-> "POST", path |-> PathCompletions,  priceUsd |-> 5],
       [method |-> "POST", path |-> PathChat,         priceUsd |-> 6],
       [method |-> "POST", path |-> PathImages,       priceUsd |-> 15],
       [method |-> "GET",  path |-> PathModels,       priceUsd |-> 2],
       [method |-> "POST", path |-> PathClaude,       priceUsd |-> 7],
       [method |-> "POST", path |-> PathSheetsGet,    priceUsd |-> 4],
       [method |-> "POST", path |-> PathSheetsUpdate, priceUsd |-> 5],
       [method |-> "POST", path |-> PathSheetsAppend, priceUsd |-> 5] >>

\* What a lookup that misses returns (undefined).
NoRoute == [method |-> "", path |-> <<>>, priceUsd |-> 0]

MICRO_USDC_MULTIPLIER == 1000000

\* Math.round(num / den) for non-negative operands (half rounds up)
MathRound(num, den) == (2 * num + den) \div (2 * den)

\* A billing price left in hundredths of a dollar.
toMicros_Hundredths(amountUsd) == amountUsd

\* server.ts toMicros: Math.round(amountUsd * 1_000_000), amountUsd in hundredths
toMicros(amountUsd) == MathRound(amountUsd * 1000000, 100)

\* A lookup that forgets the method of the route.
findRouteConfig_IgnoreMethod(method, path) ==
    LET hits == {i \in DOMAIN pricingConfig : pricingConfig[i].path = path}
    IN IF hits = {} THEN NoRoute
       ELSE pricingConfig[CHOOSE i \in hits : \A j \in hits : i <= j]

\* server.ts findRouteConfig: pricingConfig[`${method.toUpperCase()} ${path}`]
findRouteConfig(method, path) ==
    LET hits == {i \in DOMAIN pricingConfig :
                    /\ pricingConfig[i].method = ToUpperCase(method)
                    /\ pricingConfig[i].path = path}
    IN IF hits = {} THEN NoRoute ELSE pricingConfig[CHOOSE i \in hits : TRUE]

\* payment.ts compileRoutePatterns/matchRoute: the first pattern that matches
matchRoute(method, requestPath) ==
    LET hits == {i \in DOMAIN pricingConfig :
                    /\ ToUpperCase(pricingConfig[i].method) = ToUpperCase(method)
                    /\ pricingConfig[i].path = requestPath}
    IN IF hits = {} THEN NoRoute
       ELSE pricingConfig[CHOOSE i \in hits : \A j \in hits : i <= j]

\* Requirements that quote the price in cents instead of micros.
buildPaymentRequirements_Cents(config) ==
    [maxAmountRequired |-> DecString(config.priceUsd)]

\* payment.ts buildPaymentRequirements (the field the claims are about)
buildPaymentRequirements(config) ==
    [maxAmountRequired |->
        DecString(MathRound(config.priceUsd * MICRO_USDC_MULTIPLIER, 100))]

\* req.path.startsWith("/facilitator")
StartsWithFacilitator(path) == Len(path) >= 1 /\ path[1] = "facilitator"

\* server.ts 93-109: the routes of the admin and facilitator routers, mounted
\* ahead of every middleware of the gateway (unnamed/part_002 30,
\* ledger.js 197-261).
MountedAhead(method, path) ==
    \/ method = "POST" /\ path = PathAdminTest
    \/ method = "GET" /\ path \in {<<"facilitator">>, <<"facilitator", "healthz">>,
                                     <<"facilitator", "supported">>}
    \/ method = "POST" /\ path \in {PathFacilitatorVerify, <<"facilitator", "settle">>}

\* The routers mounted behind the payment guard (server.ts 279, 366, 368):
\* "sync200" the welcome page, "proxy" an OpenAI proxy handler, "sync404".
DownstreamKind(method, path) ==
    IF method = "GET" /\ path = PathRoot THEN "sync200"
    ELSE IF \/ method = "POST" /\ path \in {PathCompletions, PathChat, PathImages}
            \/ method = "GET" /\ path = PathModels
         THEN "proxy"
         ELSE "sync404"

(***************************************************************************)
(* Requests.  A header or body field is [present, value]; the X-PAYMENT    *)
(* header is absent, the empty string, base64 of something that is not     *)
(* JSON, or base64 of the JSON of a payment payload.                       *)
(***************************************************************************)
WalletA == <<"A">>
WalletB == <<"B">>
Wallets == {WalletA, WalletB}
NoWallet == <<>>

Absent == [present |-> FALSE, value |-> <<>>]
Str(s) == [present |-> TRUE, value |-> s]

\* kind: what Buffer.from(header, "base64").toString("utf-8") is to JSON.parse;
\* strict: the header is well-formed base64 (Buffer.from skips the characters
\* outside the alphabet and never throws); payload: the proof it decodes to.
PayAbsent == [kind |-> "absent", strict |-> TRUE, payload |-> 0]
PayNotJson == [kind |-> "notjson", strict |-> TRUE, payload |-> 0]
PayProof == [kind |-> "json", strict |-> TRUE, payload |-> 1]
PayBadBase64 == [kind |-> "json", strict |-> FALSE, payload |-> 1]

\* Requests that carry a wallet identifier.
WalletInputs ==
    { [hdr |-> Absent, body |-> Str(WalletA)],
      [hdr |-> Str(<<SP, "B", SP>>), body |-> Str(WalletA)] }

\* Requests that carry none: nothing, a blank header in front of a body field,
\* a blank body field.
NoWalletInputs ==
    { [hdr |-> Absent, body |-> Absent],
      [hdr |-> Str(<<SP>>), body |-> Str(WalletA)],
      [hdr |-> Absent, body |-> Str(<<SP, SP>>)] }

Req(method, path, w, pay) ==
    [method |-> method, path |-> path, hdr |-> w.hdr, body |-> w.body, pay |-> pay]

Inputs ==
    {Req("POST", PathChat, w, p) : w \in WalletInputs, p \in {PayAbsent, PayProof}}
    \cup {Req("GET", PathModels, [hdr |-> Absent, body |-> Str(WalletA)], p) :
            p \in {PayAbsent, PayProof}}
    \cup {Req("POST", PathChat, [hdr |-> Absent, body |-> Str(WalletA)], PayNotJson)}
    \cup {Req("POST", PathClaude, [hdr |-> Absent, body |-> Str(WalletA)], p) :
            p \in {PayProof, PayBadBase64}}
    \cup {Req("GET", p, w, PayAbsent) :
            p \in {PathChat, PathRoot},
            w \in {[hdr |-> Absent, body |-> Str(WalletA)], [hdr |-> Absent, body |-> Absent]}}
    \cup {Req("POST", PathChat, w, PayProof) : w \in NoWalletInputs}
    \cup {Req("GET", PathFacilitatorOther, [hdr |-> Absent, body |-> Absent], PayAbsent)}
    \cup {Req("POST", PathAdminTest, w, PayAbsent) :
             w \in {[hdr |-> Absent, body |-> Absent], [hdr |-> Str(WalletA), body |-> Absent]}}

\* Balances the store may hold when the gateway starts (earlier top-ups).
InitBalances == {0, 80000}

\* Statuses an OpenAI proxy handler ends with (handleProxy: the upstream's
\* status, or 500 when the call throws).
HandlerStatuses == {200, 500}

\* Response bodies: the x402 challenge {x402Version, error, accepts}, another
\* JSON answer of the gateway, or what a handler answers.
NullBody == [kind |-> "null", x402Version |-> 0, error |-> "", accepts |-> <<>>]
Body(kind, error) == [kind |-> kind, x402Version |-> 0, error |-> error, accepts |-> <<>>]
Challenge(error, paymentRequirements) ==
    [kind |-> "x402", x402Version |-> 1, error |-> error, accepts |-> <<paymentRequirements>>]

NoRequirements == [maxAmountRequired |-> <<>>]

VARIABLES
    ledgerActive,   \* ledger.js ledgerActive / supabase # null
    balances,       \* table credit_balances: wallet -> balance_micros
    paymentEvents,  \* table payment_events
    usageEvents,    \* table usage_events
    opening,        \* history: the balances at the start
    credited,       \* history: per wallet, the amounts credited
    debited,        \* history: per wallet, the amounts of the debits that succeeded
    faults,         \* history: the store errors so far
    req             \* per request: the request, the response and the tasks of it

vars == <<ledgerActive, balances, paymentEvents, usageEvents, opening, credited, debited,
          faults, req>>

\* The store answers a call (ok) or fails it; at most MaxFaults calls fail.
StoreAnswers(ok) ==
    /\ ok \in BOOLEAN
    /\ ~ok => faults < MaxFaults
    /\ faults' = IF ok THEN faults ELSE faults + 1

IdleReq ==
    [ stage |-> "idle",          \* idle, creditCheck, verify, settle, done
      in |-> Req("", <<>>, [hdr |-> Absent, body |-> Absent], PayAbsent),
      senderWallet |-> NoWallet, \* req.senderWallet
      mode |-> "none",           \* req.billing?.mode
      priceMicros |-> 0,         \* req.billing?.priceMicros
      listener |-> "none",       \* the res.once("finish") listener registered
      requirements |-> NoRequirements, \* handlePayment's paymentRequirements
      hasX402 |-> FALSE,         \* req.x402 is set
      settled |-> FALSE,         \* req.x402.settleResponse is set
      payer |-> NoWallet,        \* settleResponse.payer ?? verifyResponse.payer
      statusCode |-> 200,        \* res.statusCode
      endHook |-> FALSE,         \* res.end is the interceptor of handlePayment
      endArgs |-> NullBody,      \* what the interceptor captured
      sent |-> 0,                \* the status the client received (0: none yet)
      sentBody |-> NullBody,     \* the body the client received
      handler |-> "none",        \* the downstream handler: none, running, done
      handlerStatus |-> 0,       \* the status the handler ended with
      led |-> "none",            \* the ledger task of the finish listener
      ledError |-> "none",       \* history: the error that ended that task
      nSent |-> 0,               \* history: responses put on the socket
      local |-> 0,               \* the balance that task read
      nVerify |-> 0,             \* history: facilitator /verify calls
      nSettle |-> 0,             \* history: facilitator /settle calls
      verifyProof |-> 0,         \* history: the paymentPayload sent to /verify
      settleProof |-> 0,         \* history: the paymentPayload sent to /settle
      nRead |-> 0,               \* history: ledger reads of the credit check
      readBalance |-> -1,        \* history: the balance the credit check read
      verify |-> "none",         \* history: /verify threw, invalid, valid
      verifyPayer |-> NoWallet,  \* history: the payer /verify named
      settle |-> "none",         \* history: /settle threw, failed, success
      handlerAtSettle |-> "none", \* history: the handler when /settle was called
      statusAtSettle |-> 0,      \* history: the handler's status when /settle was called
      sentAtSettle |-> 0,        \* history: what the client had when /settle returned
      concurrent |-> FALSE,      \* history: overlapped a request of the same wallet
      storeError |-> FALSE,      \* history: a store call of this request failed
      nHandler |-> 0,            \* history: runs of the downstream handler
      creditDelta |-> 0,         \* history: by how much its credit raised the stored balance
      debitDelta |-> 0           \* history: by how much its debit lowered the stored balance
    ]

Init ==
    /\ ledgerActive \in BOOLEAN
    /\ \E b \in InitBalances : balances = [w \in Wallets |-> IF w = WalletA THEN b ELSE 0]
    /\ ledgerActive = FALSE => balances = [w \in Wallets |-> 0]
    /\ faults = 0
    /\ paymentEvents = EmptyBag
    /\ usageEvents = EmptyBag
    /\ opening = balances
    /\ credited = [w \in Wallets |-> 0]
    /\ debited = [w \in Wallets |-> 0]
    /\ req = [r \in Reqs |-> IdleReq]

(***************************************************************************)
(* The response object.                                                    *)
(***************************************************************************)
\* Finish listeners without the guard on res.statusCode.
Send_NoStatusGuard(rec, status, body) ==
    LET out == [rec EXCEPT !.sent = status, !.sentBody = body, !.statusCode = status,
                           !.nSent = @ + 1]
    IN IF rec.listener = "credit" THEN [out EXCEPT !.led = "ccRead"]
       ELSE IF rec.listener = "payment" /\ rec.hasX402 /\ rec.settled
            THEN [out EXCEPT !.led = "rpInsert"]
       ELSE out

\* The response reaches the socket and "finish" fires: the listener that the
\* billing middleware registered starts its ledger task (server.ts 203-220,
\* 229-272).
Send(rec, status, body) ==
    LET out == [rec EXCEPT !.sent = status, !.sentBody = body, !.statusCode = status,
                           !.nSent = @ + 1]
    IN IF status >= 400 THEN out
       ELSE IF rec.listener = "credit" THEN [out EXCEPT !.led = "ccRead"]
       ELSE IF rec.listener = "payment" /\ rec.hasX402 /\ rec.settled
            THEN [out EXCEPT !.led = "rpInsert"]
       ELSE out

\* res.status(status).json(body): throws once the headers are sent, lands in
\* the interceptor while handlePayment holds res.end, else goes out.
Respond(rec, status, body) ==
    IF rec.sent # 0 THEN [rec EXCEPT !.statusCode = status]
    ELSE IF rec.endHook THEN [rec EXCEPT !.statusCode = status, !.endArgs = body]
    ELSE Send(rec, status, body)

\* A restore of res.end that drops the response the interceptor captured.
Flush_DropsCaptured(rec) == [rec EXCEPT !.endHook = FALSE, !.endArgs = NullBody]

\* payment.ts 154-157 and 196-199: res.end = originalEnd; flush what was captured.
Flush(rec) ==
    LET r1 == [rec EXCEPT !.endHook = FALSE, !.endArgs = NullBody]
    IN IF rec.endArgs # NullBody THEN Send(r1, rec.statusCode, rec.endArgs) ELSE r1

\* next() into the routers behind the payment guard, up to the handler's
\* first await (openai.ts 38-42, with OPENAI_API_KEY configured) or its
\* synchronous answer.
StartHandler(rec) ==
    LET kind == DownstreamKind(rec.in.method, rec.in.path)
        run == [rec EXCEPT !.nHandler = @ + 1]
    IN CASE kind = "proxy" -> [run EXCEPT !.handler = "running"]
         [] kind = "sync200" ->
                Respond([run EXCEPT !.handler = "done", !.handlerStatus = 200], 200,
                        Body("welcome", ""))
         [] OTHER ->
                Respond([run EXCEPT !.handler = "done", !.handlerStatus = 404], 404,
                        Body("json", "Not Found"))

\* Buffer.from(header, "base64") then JSON.parse: throws unless the decoded
\* text is JSON.
DecodeThrows(pay) == pay.kind # "json"

\* A payment guard without the credit bypass of lines 49-52.
handlePayment_NoBypass(rec) ==
    LET match == matchRoute(rec.in.method, rec.in.path)
        r1 == [rec EXCEPT !.requirements = buildPaymentRequirements(match),
                          !.stage = "done"]
    IN IF match = NoRoute THEN [StartHandler(rec) EXCEPT !.stage = "done"]
       ELSE IF rec.in.pay.kind \in {"absent", "empty"}
            THEN Respond(r1, 402, Challenge("X-PAYMENT header is required",
                                            r1.requirements))
       ELSE IF DecodeThrows(rec.in.pay)
            THEN Respond(r1, 402, Challenge("Invalid X-PAYMENT header", r1.requirements))
       ELSE [r1 EXCEPT !.stage = "verify", !.nVerify = @ + 1,
                            !.verifyProof = rec.in.pay.payload]

\* payment.ts handlePayment 49-104: up to the await of the /verify call.
handlePayment(rec) ==
    IF rec.mode = "credit" THEN [StartHandler(rec) EXCEPT !.stage = "done"]
    ELSE LET match == matchRoute(rec.in.method, rec.in.path)
             r1 == [rec EXCEPT !.requirements = buildPaymentRequirements(match),
                               !.stage = "done"]
         IN IF match = NoRoute THEN [StartHandler(rec) EXCEPT !.stage = "done"]
            ELSE IF rec.in.pay.kind \in {"absent", "empty"}
                 THEN Respond(r1, 402, Challenge("X-PAYMENT header is required",
                                                 r1.requirements))
            ELSE IF DecodeThrows(rec.in.pay)
                 THEN Respond(r1, 402, Challenge("Invalid X-PAYMENT header", r1.requirements))
            ELSE [r1 EXCEPT !.stage = "verify", !.nVerify = @ + 1,
                            !.verifyProof = rec.in.pay.payload]

\* server.ts 146-159: the wallet identifier of the request, trimmed; NoWallet
\* when missing or blank.
ResolveWallet(in) ==
    LET raw == IF in.hdr.present THEN in.hdr.value
               ELSE IF in.body.present THEN in.body.value ELSE <<>>
    IN Trim(raw)

\* A wallet middleware that lets every path through.
WalletExempt_EveryPath(path) == TRUE

\* server.ts 135-161: the paths the wallet middleware lets through untouched.
WalletExempt(path) == StartsWithFacilitator(path) \/ path = PathRoot

\* A billing middleware that runs the credit check with the ledger disabled.
Billing_IgnoreDisabled(rec) ==
    LET routeConfig == findRouteConfig(rec.in.method, rec.in.path)
        r1 == [rec EXCEPT !.mode = "payment",
                          !.priceMicros = toMicros(routeConfig.priceUsd)]
    IN IF StartsWithFacilitator(rec.in.path) \/ routeConfig = NoRoute
       THEN handlePayment(rec)
       ELSE IF rec.senderWallet = NoWallet
            THEN Respond([rec EXCEPT !.stage = "done"], 400,
                         Body("json", "missing_sender_wallet"))
       ELSE [r1 EXCEPT !.stage = "creditCheck"]

\* server.ts 163-199: the billing middleware up to the await of
\* hasSufficientCredits.
Billing(rec) ==
    LET routeConfig == findRouteConfig(rec.in.method, rec.in.path)
        r1 == [rec EXCEPT !.mode = "payment",
                          !.priceMicros = toMicros(routeConfig.priceUsd)]
    IN IF StartsWithFacilitator(rec.in.path) \/ routeConfig = NoRoute
       THEN handlePayment(rec)
       ELSE IF rec.senderWallet = NoWallet
            THEN Respond([rec EXCEPT !.stage = "done"], 400,
                         Body("json", "missing_sender_wallet"))
       ELSE IF ~ledgerActive THEN handlePayment(r1)
       ELSE [r1 EXCEPT !.stage = "creditCheck"]

\* The ledger task of a request is between two store calls.
LedgerBusy(rec) == rec.led \in {"rpInsert", "rpRead", "rpWrite", "ccRead", "ccWrite", "ccInsert"}

\* The request is in flight: in a middleware, in its handler or in its ledger task.
InFlight(rec) ==
    rec.stage \in {"creditCheck", "verify", "settle"} \/ rec.handler = "running" \/ LedgerBusy(rec)

\* server.ts 93-199: a router mounted ahead answers (the status of its answer
\* is not modelled), or the wallet middleware (135-161) and then the billing
\* middleware (163-199) run.
Admit(rec) ==
    LET r0 == [rec EXCEPT !.stage = "done"]
        w == ResolveWallet(rec.in)
    IN IF MountedAhead(rec.in.method, rec.in.path)
       THEN Respond([r0 EXCEPT !.nHandler = @ + 1, !.handler = "done",
                               !.handlerStatus = 200], 200, Body("router", ""))
       ELSE IF WalletExempt(rec.in.path) THEN Billing(r0)
       ELSE IF w = NoWallet THEN Respond(r0, 400, Body("json", "missing_sender_wallet"))
       ELSE Billing([r0 EXCEPT !.senderWallet = w])

\* A request arrives (requests are numbered in the order of their arrival).
Arrive(r, in) ==
    /\ req[r].stage = "idle"
    /\ \A q \in Reqs : q < r => req[q].stage # "idle"
    /\ LET new == Admit([req[r] EXCEPT !.in = in])
           overlapped == {q \in Reqs \ {r} : /\ InFlight(req[q])
                                             /\ new.senderWallet # NoWallet
                                             /\ req[q].senderWallet = new.senderWallet}
       IN req' = [q \in Reqs |->
               IF q = r THEN [new EXCEPT !.concurrent = overlapped # {}]
               ELSE IF q \in overlapped THEN [req[q] EXCEPT !.concurrent = TRUE]
               ELSE req[q]]
    /\ UNCHANGED <<ledgerActive, opening, balances, paymentEvents, usageEvents, credited, debited, faults>>

\* A credit check that grants every wallet with a balance row.
HasCredit_AnyBalance(balance, amountMicros) == balance >= 0

\* A credit check that wants more than the price.
HasCredit_Strict(balance, amountMicros) == balance > amountMicros

\* ledger.js hasSufficientCredits 41: hasCredit
HasCredit(balance, amountMicros) == balance >= amountMicros

\* A credit check that grants credit when the balance read fails.
CreditCheckReturn_GrantsOnFailure(r, ok) ==
    /\ StoreAnswers(ok)
    /\ req[r].stage = "creditCheck"
    /\ LET rec == [req[r] EXCEPT !.nRead = @ + 1,
                                 !.readBalance = IF ok THEN balances[req[r].senderWallet] ELSE -1,
                                 !.storeError = @ \/ ~ok]
           hasCredit == ~ok \/ HasCredit(balances[rec.senderWallet], rec.priceMicros)
       IN req' = [req EXCEPT ![r] =
               IF hasCredit
               THEN handlePayment([rec EXCEPT !.mode = "credit", !.listener = "credit"])
               ELSE handlePayment([rec EXCEPT !.listener = "payment"])]
    /\ UNCHANGED <<ledgerActive, opening, balances, paymentEvents, usageEvents, credited, debited>>

\* ledger.js hasSufficientCredits 34-44 resolves (ok) or fetchBalanceMicros
\* throws (~ok); server.ts 199-274 runs on to the next await.
CreditCheckReturn(r, ok) ==
    /\ StoreAnswers(ok)
    /\ req[r].stage = "creditCheck"
    /\ LET rec == [req[r] EXCEPT !.nRead = @ + 1,
                                 !.readBalance = IF ok THEN balances[req[r].senderWallet] ELSE -1,
                                 !.storeError = @ \/ ~ok]
           hasCredit == ok /\ HasCredit(balances[rec.senderWallet], rec.priceMicros)
       IN req' = [req EXCEPT ![r] =
               IF hasCredit
               THEN handlePayment([rec EXCEPT !.mode = "credit", !.listener = "credit"])
               ELSE handlePayment([rec EXCEPT !.listener = "payment"])]
    /\ UNCHANGED <<ledgerActive, opening, balances, paymentEvents, usageEvents, credited, debited>>

\* What the facilitator answers to /verify and to /settle; threw: a transport
\* failure or a non-2xx answer (callFacilitator 264-273).
FacilitatorPayers == {NoWallet, WalletA, WalletB}

VerifyOutcomes ==
    {[threw |-> TRUE, isValid |-> FALSE, payer |-> NoWallet],
     [threw |-> FALSE, isValid |-> FALSE, payer |-> NoWallet]}
    \cup {[threw |-> FALSE, isValid |-> TRUE, payer |-> p] : p \in FacilitatorPayers}

SettleOutcomes ==
    {[threw |-> TRUE, success |-> FALSE, payer |-> NoWallet],
     [threw |-> FALSE, success |-> FALSE, payer |-> NoWallet]}
    \cup {[threw |-> FALSE, success |-> TRUE, payer |-> p] : p \in FacilitatorPayers}

\* A guard that leaves res.end alone.
AfterVerify_NoIntercept(rec) ==
    LET r1 == StartHandler(rec)
    IN IF r1.statusCode >= 400 THEN [Flush(r1) EXCEPT !.stage = "done"]
       ELSE [r1 EXCEPT !.stage = "settle", !.nSettle = @ + 1,
                       !.settleProof = rec.in.pay.payload,
                       !.handlerAtSettle = r1.handler,
                       !.statusAtSettle = r1.handlerStatus]

\* payment.ts 143-170: intercept res.end, next(), and after the await of
\* next() either flush an error answer or call /settle.
AfterVerify(rec) ==
    LET r1 == StartHandler([rec EXCEPT !.endHook = TRUE, !.endArgs = NullBody])
    IN IF r1.statusCode >= 400 THEN [Flush(r1) EXCEPT !.stage = "done"]
       ELSE [r1 EXCEPT !.stage = "settle", !.nSettle = @ + 1,
                       !.settleProof = rec.in.pay.payload,
                       !.handlerAtSettle = r1.handler,
                       !.statusAtSettle = r1.handlerStatus]

\* A guard that does not compare the payer with the sender wallet.
OnVerify_NoPayerCheck(rec, v) ==
    IF v.threw
    THEN Respond(rec, 402, Challenge("payment_verification_failed", rec.requirements))
    ELSE IF ~v.isValid
    THEN Respond(rec, 402, Challenge("payment_not_verified", rec.requirements))
    ELSE AfterVerify([rec EXCEPT !.hasX402 = TRUE, !.payer = v.payer])

\* A guard that does not look at isValid.
OnVerify_IgnoreInvalid(rec, v) ==
    IF v.threw
    THEN Respond(rec, 402, Challenge("payment_verification_failed", rec.requirements))
    ELSE IF v.payer # NoWallet /\ rec.senderWallet # NoWallet /\ v.payer # rec.senderWallet
    THEN Respond(rec, 402, Challenge("sender_wallet_mismatch", rec.requirements))
    ELSE AfterVerify([rec EXCEPT !.hasX402 = TRUE, !.payer = v.payer])

\* A guard that takes a failed /verify call for a valid verdict.
OnVerify_ThrowIsValid(rec, v) ==
    IF ~v.threw /\ ~v.isValid
    THEN Respond(rec, 402, Challenge("payment_not_verified", rec.requirements))
    ELSE IF v.payer # NoWallet /\ rec.senderWallet # NoWallet /\ v.payer # rec.senderWallet
    THEN Respond(rec, 402, Challenge("sender_wallet_mismatch", rec.requirements))
    ELSE AfterVerify([rec EXCEPT !.hasX402 = TRUE, !.payer = v.payer])

\* payment.ts 95-141: what handlePayment does with the answer of /verify.
OnVerify(rec, v) ==
    IF v.threw
    THEN Respond(rec, 402, Challenge("payment_verification_failed", rec.requirements))
    ELSE IF ~v.isValid
    THEN Respond(rec, 402, Challenge("payment_not_verified", rec.requirements))
    ELSE IF v.payer # NoWallet /\ rec.senderWallet # NoWallet /\ v.payer # rec.senderWallet
    THEN Respond(rec, 402, Challenge("sender_wallet_mismatch", rec.requirements))
    ELSE AfterVerify([rec EXCEPT !.hasX402 = TRUE, !.payer = v.payer])

\* The /verify call returns.
VerifyReturn(r, v) ==
    /\ req[r].stage = "verify"
    /\ req' = [req EXCEPT ![r] =
            OnVerify([req[r] EXCEPT
                         !.stage = "done",
                         !.verify = IF v.threw THEN "threw"
                                    ELSE IF v.isValid THEN "valid" ELSE "invalid",
                         !.verifyPayer = v.payer], v)]
    /\ UNCHANGED <<ledgerActive, opening, balances, paymentEvents, usageEvents, credited, debited, faults>>

\* A guard that calls /settle again when the call failed.
OnSettle_RetryOnThrow(rec, s) ==
    IF s.threw
    THEN [rec EXCEPT !.stage = "settle", !.nSettle = @ + 1]
    ELSE IF ~s.success
    THEN Flush(Respond(rec, 402, Challenge("settlement_failed", rec.requirements)))
    ELSE Flush([rec EXCEPT !.settled = rec.hasX402,
                           !.payer = IF s.payer # NoWallet THEN s.payer ELSE @])

\* A guard that releases the handler's response whatever /settle answers.
OnSettle_IgnoreFailure(rec, s) ==
    Flush([rec EXCEPT !.settled = rec.hasX402,
                      !.payer = IF s.payer # NoWallet THEN s.payer ELSE @])

\* payment.ts 161-200: what handlePayment does with the answer of /settle,
\* the finally block included.
OnSettle(rec, s) ==
    IF s.threw
    THEN Flush(IF rec.sent = 0
               THEN Respond(rec, 402, Challenge("payment_settlement_failed",
                                                rec.requirements))
               ELSE rec)
    ELSE IF ~s.success
    THEN Flush(Respond(rec, 402, Challenge("settlement_failed", rec.requirements)))
    ELSE Flush([rec EXCEPT !.settled = rec.hasX402,
                           !.payer = IF s.payer # NoWallet THEN s.payer ELSE @])

\* The /settle call returns.
SettleReturn(r, s) ==
    /\ req[r].stage = "settle"
    /\ req' = [req EXCEPT ![r] =
            OnSettle([req[r] EXCEPT
                         !.stage = "done",
                         !.settle = IF s.threw THEN "threw"
                                    ELSE IF s.success THEN "success" ELSE "failed",
                         !.sentAtSettle = req[r].sent], s)]
    /\ UNCHANGED <<ledgerActive, opening, balances, paymentEvents, usageEvents, credited, debited, faults>>

\* openai.ts handleProxy 42-62: the upstream call ends and the handler
\* answers; when the headers are already sent res.json throws, the catch's
\* own res.status(500).json throws again.
HandlerReturn(r, status) ==
    /\ req[r].handler = "running"
    /\ LET rec == [req[r] EXCEPT !.handler = "done", !.handlerStatus = status]
       IN req' = [req EXCEPT ![r] =
               IF rec.sent # 0 THEN [rec EXCEPT !.statusCode = 500]
               ELSE Respond(rec, status, Body("upstream", ""))]
    /\ UNCHANGED <<ledgerActive, opening, balances, paymentEvents, usageEvents, credited, debited, faults>>

(***************************************************************************)
(* The ledger tasks of the finish listeners.  Each action is one call of   *)
(* the store (a select, an upsert or an insert), which the store runs      *)
(* atomically; ok tells whether the store answered without error.          *)
(***************************************************************************)
PaymentEvent(r) ==
    [wallet |-> req[r].senderWallet, amountMicros |-> req[r].priceMicros,
     payer |-> req[r].payer, req |-> r]

UsageEvent(r) ==
    [wallet |-> req[r].senderWallet, amountMicros |-> req[r].priceMicros,
     billingMode |-> req[r].mode, req |-> r]

\* ledger.js recordPayment 58-69: insert the payment event; an error is logged.
RecordPaymentInsert(r, ok) ==
    /\ StoreAnswers(ok)
    /\ req[r].led = "rpInsert"
    /\ paymentEvents' = IF ok THEN paymentEvents (+) SetToBag({PaymentEvent(r)})
                        ELSE paymentEvents
    /\ req' = [req EXCEPT ![r].led = "rpRead", ![r].storeError = @ \/ ~ok]
    /\ UNCHANGED <<ledgerActive, opening, balances, usageEvents, credited, debited>>

\* ledger.js incrementBalance 127: fetchBalanceMicros; its error is thrown
\* through recordPayment to the listener's catch (server.ts 269).
IncrementBalanceRead(r, ok) ==
    /\ StoreAnswers(ok)
    /\ req[r].led = "rpRead"
    /\ req' = [req EXCEPT ![r].led = IF ok THEN "rpWrite" ELSE "failed",
                          ![r].local = IF ok THEN balances[req[r].senderWallet] ELSE 0,
                          ![r].ledError = IF ok THEN @ ELSE "incrementError",
                          ![r].storeError = @ \/ ~ok]
    /\ UNCHANGED <<ledgerActive, opening, balances, paymentEvents, usageEvents, credited, debited>>

\* The balance incrementBalance writes (ledger.js 128).
IncrementedBalance(balance, delta) == balance + delta

\* A credit written to the balance of the payer the facilitator named.
IncrementBalanceWrite_KeyedByPayer(r, ok) ==
    /\ StoreAnswers(ok)
    /\ req[r].led = "rpWrite"
    /\ LET w == IF req[r].payer \in Wallets THEN req[r].payer ELSE req[r].senderWallet
       IN /\ balances' = IF ok
                THEN [balances EXCEPT ![w] = IncrementedBalance(req[r].local, req[r].priceMicros)]
                ELSE balances
          /\ credited' = IF ok THEN [credited EXCEPT ![w] = @ + req[r].priceMicros]
                         ELSE credited
    /\ req' = [req EXCEPT ![r].led = "ccRead", ![r].local = 0, ![r].storeError = @ \/ ~ok,
                          ![r].creditDelta = balances'[req[r].senderWallet]
                                             - balances[req[r].senderWallet]]
    /\ UNCHANGED <<ledgerActive, opening, paymentEvents, usageEvents, debited>>

\* ledger.js incrementBalance 128-143: upsert balance + delta; an error is
\* logged.  The listener then calls consumeCredits (server.ts 259).
IncrementBalanceWrite(r, ok) ==
    /\ StoreAnswers(ok)
    /\ req[r].led = "rpWrite"
    /\ LET w == req[r].senderWallet
       IN /\ balances' = IF ok
                THEN [balances EXCEPT ![w] = IncrementedBalance(req[r].local, req[r].priceMicros)]
                ELSE balances
          /\ credited' = IF ok THEN [credited EXCEPT ![w] = @ + req[r].priceMicros]
                         ELSE credited
    /\ req' = [req EXCEPT ![r].led = "ccRead", ![r].local = 0, ![r].storeError = @ \/ ~ok,
                          ![r].creditDelta = balances'[req[r].senderWallet]
                                             - balances[req[r].senderWallet]]
    /\ UNCHANGED <<ledgerActive, opening, paymentEvents, usageEvents, debited>>

\* A check that never finds the balance insufficient.
Insufficient_Never(balance, amountMicros) == FALSE

\* ledger.js consumeCredits 87: the check before the subtraction.
Insufficient(balance, amountMicros) == balance < amountMicros

\* A debit whose failure turns the response into a 500.
ConsumeCreditsRead_FailsRequest(r, ok) ==
    /\ StoreAnswers(ok)
    /\ req[r].led = "ccRead"
    /\ LET balance == balances[req[r].senderWallet]
           fine == ok /\ ~Insufficient(balance, req[r].priceMicros)
       IN req' = [req EXCEPT
               ![r].led = IF fine THEN "ccWrite" ELSE "failed",
               ![r].local = IF fine THEN balance ELSE 0,
               ![r].ledError = IF ~ok THEN "balanceError"
                               ELSE IF Insufficient(balance, req[r].priceMicros)
                                    THEN "insufficient_credits" ELSE @,
               ![r].sent = IF fine THEN @ ELSE 500,
               ![r].storeError = @ \/ ~ok]
    /\ UNCHANGED <<ledgerActive, opening, balances, paymentEvents, usageEvents, credited, debited>>

\* ledger.js consumeCredits 86-89: fetchBalanceMicros, then the check.
ConsumeCreditsRead(r, ok) ==
    /\ StoreAnswers(ok)
    /\ req[r].led = "ccRead"
    /\ LET balance == balances[req[r].senderWallet]
       IN req' = [req EXCEPT
               ![r].led = IF ok /\ ~Insufficient(balance, req[r].priceMicros)
                          THEN "ccWrite" ELSE "failed",
               ![r].local = IF ok /\ ~Insufficient(balance, req[r].priceMicros)
                            THEN balance ELSE 0,
               ![r].ledError = IF ~ok THEN "balanceError"
                               ELSE IF Insufficient(balance, req[r].priceMicros)
                                    THEN "insufficient_credits" ELSE @,
               ![r].storeError = @ \/ ~ok]
    /\ UNCHANGED <<ledgerActive, opening, balances, paymentEvents, usageEvents, credited, debited>>

\* A debit that writes the balance back unchanged.
DecrementedBalance_NoSubtract(balance, amountMicros) == balance

\* The balance consumeCredits writes (ledger.js 91).
DecrementedBalance(balance, amountMicros) == balance - amountMicros

\* A debit whose failed upsert has lowered the balance all the same.
ConsumeCreditsWrite_WritesOnError(r, ok) ==
    /\ StoreAnswers(ok)
    /\ req[r].led = "ccWrite"
    /\ LET w == req[r].senderWallet
       IN /\ balances' = [balances EXCEPT
                             ![w] = DecrementedBalance(req[r].local, req[r].priceMicros)]
          /\ debited' = [debited EXCEPT ![w] = @ + req[r].priceMicros]
    /\ req' = [req EXCEPT ![r].led = IF ok THEN "ccInsert" ELSE "failed", ![r].local = 0,
                          ![r].ledError = IF ok THEN @ ELSE "updateError",
                          ![r].storeError = @ \/ ~ok,
                          ![r].debitDelta = balances[req[r].senderWallet]
                                            - balances'[req[r].senderWallet]]
    /\ UNCHANGED <<ledgerActive, opening, paymentEvents, usageEvents, credited>>

\* ledger.js consumeCredits 91-106: upsert balance - amount; an error is thrown.
ConsumeCreditsWrite(r, ok) ==
    /\ StoreAnswers(ok)
    /\ req[r].led = "ccWrite"
    /\ LET w == req[r].senderWallet
       IN /\ balances' = IF ok
                THEN [balances EXCEPT ![w] = DecrementedBalance(req[r].local, req[r].priceMicros)]
                ELSE balances
          /\ debited' = IF ok THEN [debited EXCEPT ![w] = @ + req[r].priceMicros]
                        ELSE debited
    /\ req' = [req EXCEPT ![r].led = IF ok THEN "ccInsert" ELSE "failed", ![r].local = 0,
                          ![r].ledError = IF ok THEN @ ELSE "updateError",
                          ![r].storeError = @ \/ ~ok,
                          ![r].debitDelta = balances[req[r].senderWallet]
                                            - balances'[req[r].senderWallet]]
    /\ UNCHANGED <<ledgerActive, opening, paymentEvents, usageEvents, credited>>

\* A debit that throws when the usage insert fails.
ConsumeCreditsInsert_FailureThrows(r, ok) ==
    /\ StoreAnswers(ok)
    /\ req[r].led = "ccInsert"
    /\ usageEvents' = IF ok THEN usageEvents (+) SetToBag({UsageEvent(r)})
                      ELSE usageEvents
    /\ req' = [req EXCEPT ![r].led = IF ok THEN "ok" ELSE "failed",
                          ![r].ledError = IF ok THEN @ ELSE "usageError",
                          ![r].storeError = @ \/ ~ok]
    /\ UNCHANGED <<ledgerActive, opening, balances, paymentEvents, credited, debited>>

\* ledger.js consumeCredits 108-119: insert the usage event; an error is logged.
ConsumeCreditsInsert(r, ok) ==
    /\ StoreAnswers(ok)
    /\ req[r].led = "ccInsert"
    /\ usageEvents' = IF ok THEN usageEvents (+) SetToBag({UsageEvent(r)})
                      ELSE usageEvents
    /\ req' = [req EXCEPT ![r].led = "ok", ![r].storeError = @ \/ ~ok]
    /\ UNCHANGED <<ledgerActive, opening, balances, paymentEvents, credited, debited>>

Next ==
    \/ \E r \in Reqs, in \in Inputs : Arrive(r, in)
    \/ \E r \in Reqs, ok \in BOOLEAN : CreditCheckReturn(r, ok)
    \/ \E r \in Reqs, v \in VerifyOutcomes : VerifyReturn(r, v)
    \/ \E r \in Reqs, s \in SettleOutcomes : SettleReturn(r, s)
    \/ \E r \in Reqs, status \in HandlerStatuses : HandlerReturn(r, status)
    \/ \E r \in Reqs, ok \in BOOLEAN : RecordPaymentInsert(r, ok)
    \/ \E r \in Reqs, ok \in BOOLEAN : IncrementBalanceRead(r, ok)
    \/ \E r \in Reqs, ok \in BOOLEAN : IncrementBalanceWrite(r, ok)
    \/ \E r \in Reqs, ok \in BOOLEAN : ConsumeCreditsRead(r, ok)
    \/ \E r \in Reqs, ok \in BOOLEAN : ConsumeCreditsWrite(r, ok)
    \/ \E r \in Reqs, ok \in BOOLEAN : ConsumeCreditsInsert(r, ok)

Spec == Init /\ [][Next]_vars

(***************************************************************************)
(* Vocabulary of the claims.                                               *)
(***************************************************************************)
IsBlank(s) == \A i \in 1..Len(s) : s[i] = SP

\* The x402-sender-wallet header and the senderWallet body field are both
\* missing or blank.
CarriesNoWallet(in) ==
    /\ ~in.hdr.present \/ IsBlank(in.hdr.value)
    /\ ~in.body.present \/ IsBlank(in.body.value)

\* The header names a wallet or, without a header, the body field does.
CarriesWallet(in) ==
    \/ in.hdr.present /\ ~IsBlank(in.hdr.value)
    \/ ~in.hdr.present /\ in.body.present /\ ~IsBlank(in.body.value)

CatalogEntries(in) ==
    {i \in DOMAIN pricingConfig :
        pricingConfig[i].method = in.method /\ pricingConfig[i].path = in.path}

Catalogued(in) == CatalogEntries(in) # {}

\* The catalog price in micros: a price of c hundredths is c * 10000 micros.
PriceMicros(in) == pricingConfig[CHOOSE i \in CatalogEntries(in) : TRUE].priceUsd * 10000

DigitValue(c) == CHOOSE d \in 0..9 : Digit(d) = c

\* The number a string of decimal digits denotes.
RECURSIVE DecValue(_)
DecValue(s) ==
    IF s = <<>> THEN 0 ELSE 10 * DecValue(SubSeq(s, 1, Len(s) - 1)) + DigitValue(s[Len(s)])

Started(r) == req[r].stage # "idle"

PaymentEventsOf(r) == {e \in BagToSet(paymentEvents) : e.req = r}
UsageEventsOf(r) == {e \in BagToSet(usageEvents) : e.req = r}

\* The request has started no ledger task and no event carries its name.
LedgerUntouchedBy(r) ==
    /\ req[r].led = "none"
    /\ req[r].creditDelta = 0 /\ req[r].debitDelta = 0
    /\ PaymentEventsOf(r) = {} /\ UsageEventsOf(r) = {}

NoLedgerTaskOn(w) == \A r \in Reqs : req[r].senderWallet = w => ~LedgerBusy(req[r])

(***************************************************************************)
(* C1.  Whenever no ledger operation on a wallet is in progress, its       *)
(* stored balance is what was credited to it (the opening balance and the  *)
(* recordPayment credits) minus the debits of it that succeeded.           *)
(* The read-then-upsert of consumeCredits and incrementBalance loses       *)
(* updates: the statement fails.                                           *)
(***************************************************************************)
C1_BalanceIsCreditsMinusDebits ==
    \A w \in Wallets :
        NoLedgerTaskOn(w) => balances[w] = opening[w] + credited[w] - debited[w]

(***************************************************************************)
(* C2.  Debits that run concurrently against the same starting balance of  *)
(* a wallet (nothing is credited meanwhile) take out at most that balance. *)
(* Two debits that both read the balance before either writes both         *)
(* succeed: the statement fails.                                           *)
(***************************************************************************)
C2_ConcurrentDebitsFitBalance ==
    \A w \in Wallets : credited[w] = 0 => debited[w] <= opening[w]

(***************************************************************************)
(* C3.  Two overlapping requests of one wallet whose credit checks read    *)
(* the same stored balance, a balance below the sum of their prices, are   *)
(* not both granted the credit path.  Both checks read before any debit:   *)
(* the statement fails.                                                    *)
(***************************************************************************)
C3_AtMostOneCreditGrant ==
    \A r1, r2 \in Reqs :
        ( /\ r1 # r2
          /\ req[r1].senderWallet # NoWallet
          /\ req[r1].senderWallet = req[r2].senderWallet
          /\ req[r1].concurrent /\ req[r2].concurrent
          /\ req[r1].readBalance >= 0
          /\ req[r1].readBalance = req[r2].readBalance
          /\ req[r1].readBalance < req[r1].priceMicros + req[r2].priceMicros )
        => ~(req[r1].mode = "credit" /\ req[r2].mode = "credit")

(***************************************************************************)
(* C4.  A request that carries no wallet identifier is answered 400        *)
(* missing_sender_wallet before any pricing lookup, with no ledger read,   *)
(* no facilitator call and no handler run.  The code lets the path "/"     *)
(* and the paths under /facilitator through, and the admin and facilitator *)
(* routers answer their routes ahead of the wallet middleware: the         *)
(* statement holds for every other request (C4_MissingWalletRejected), not *)
(* for every route (C4_EveryRouteRejectsMissingWallet).                    *)
(***************************************************************************)
UnderPrefix(path, segment) == Len(path) >= 1 /\ path[1] = segment
RejectedForMissingWallet(r) ==
    /\ req[r].stage = "done"
    /\ req[r].sent = 400
    /\ req[r].sentBody = Body("json", "missing_sender_wallet")
    /\ req[r].mode = "none" /\ req[r].priceMicros = 0
    /\ req[r].requirements = NoRequirements
    /\ req[r].nRead = 0 /\ req[r].nVerify = 0 /\ req[r].nSettle = 0
    /\ req[r].nHandler = 0
    /\ LedgerUntouchedBy(r)

C4_MissingWalletRejected ==
    \A r \in Reqs :
        ( /\ Started(r)
          /\ CarriesNoWallet(req[r].in)
          /\ req[r].in.path # PathRoot
          /\ ~UnderPrefix(req[r].in.path, "facilitator")
          /\ ~UnderPrefix(req[r].in.path, "admin") )
        => RejectedForMissingWallet(r)

C4_EveryRouteRejectsMissingWallet ==
    \A r \in Reqs :
        (Started(r) /\ CarriesNoWallet(req[r].in)) => RejectedForMissingWallet(r)

C4_Witness ==
    \E r \in Reqs :
        /\ req[r].in.path = PathChat /\ req[r].in.method = "POST"
        /\ req[r].in.body = Str(<<SP, SP>>) /\ ~req[r].in.hdr.present
        /\ req[r].in.pay = PayProof
        /\ ledgerActive /\ balances[WalletA] = 80000
        /\ RejectedForMissingWallet(r)

(***************************************************************************)
(* C5.  A request with a wallet identifier to a (method, path) outside the *)
(* catalog reaches the downstream handler with no ledger read, no 402, no  *)
(* facilitator call and no ledger mutation, whatever the balance and       *)
(* whether or not the ledger is enabled.                                   *)
(***************************************************************************)
C5_UncataloguedNeverGated ==
    \A r \in Reqs :
        (Started(r) /\ CarriesWallet(req[r].in) /\ ~Catalogued(req[r].in))
        => /\ req[r].nHandler = 1
           /\ req[r].mode = "none"
           /\ req[r].nRead = 0 /\ req[r].nVerify = 0 /\ req[r].nSettle = 0
           /\ req[r].sent # 402 /\ req[r].sentBody.kind # "x402"
           /\ req[r].sent = req[r].handlerStatus
           /\ LedgerUntouchedBy(r)

C5_Witness ==
    \E r \in Reqs :
        /\ req[r].in.method = "GET" /\ req[r].in.path = PathChat
        /\ CarriesWallet(req[r].in)
        /\ ledgerActive /\ balances[WalletA] = 80000
        /\ req[r].nHandler = 1 /\ req[r].sent = 404

(***************************************************************************)
(* C6.  For a catalogued route the handler runs only after admission       *)
(* succeeded: the credit check read a balance >= the price, or /verify     *)
(* answered isValid true and named no other payer than the sender wallet.  *)
(* After a 402 challenge, an undecodable proof, a rejected or failed       *)
(* verify, a payer mismatch or a missing wallet the handler has not run.   *)
(***************************************************************************)
AdmissionRefusals ==
    {"X-PAYMENT header is required", "Invalid X-PAYMENT header",
     "payment_verification_failed", "payment_not_verified",
     "sender_wallet_mismatch", "missing_sender_wallet"}

C6_HandlerOnlyAfterAdmission ==
    \A r \in Reqs :
        /\ (Catalogued(req[r].in) /\ req[r].nHandler > 0)
           => \/ /\ req[r].mode = "credit"
                 /\ req[r].readBalance >= PriceMicros(req[r].in)
              \/ /\ req[r].verify = "valid"
                 /\ req[r].verifyPayer \in {NoWallet, req[r].senderWallet}
        /\ (Catalogued(req[r].in) /\ req[r].sentBody.error \in AdmissionRefusals)
           => req[r].nHandler = 0 /\ req[r].handler = "none"

C6_Witness ==
    \E r1, r2 \in Reqs :
        /\ Catalogued(req[r1].in) /\ req[r1].mode = "credit" /\ req[r1].nHandler = 1
        /\ Catalogued(req[r2].in) /\ req[r2].verify = "valid" /\ req[r2].nHandler = 1
        /\ req[r2].mode = "payment"

(***************************************************************************)
(* C7.  A request to a catalogued route that the credit check granted,     *)
(* that overlapped no other request of its wallet and whose handler ended  *)
(* below 400 has, once its debit has ended, run the handler exactly once,  *)
(* left exactly one UsageEvent (billingMode credit, the route price), no   *)
(* PaymentEvent, and lowered the stored balance by exactly the price.      *)
(* This holds when the store failed no call of the request                 *)
(* (C7_CreditRequestDebitedOnce); a store error in the debit leaves no     *)
(* UsageEvent or no debit (C7_CreditRequestAlwaysDebitedOnce fails).       *)
(***************************************************************************)
ServedOnCreditAlone(r) ==
    /\ Catalogued(req[r].in)
    /\ req[r].mode = "credit"
    /\ ~req[r].concurrent
    /\ req[r].handler = "done" /\ req[r].handlerStatus < 400
    /\ ~LedgerBusy(req[r])

DebitedOnceOnCredit(r) ==
    /\ req[r].nHandler = 1
    /\ req[r].sent = req[r].handlerStatus
    /\ req[r].led = "ok"
    /\ UsageEventsOf(r) = {[wallet |-> req[r].senderWallet,
                            amountMicros |-> PriceMicros(req[r].in),
                            billingMode |-> "credit", req |-> r]}
    /\ \A e \in UsageEventsOf(r) : CopiesIn(e, usageEvents) = 1
    /\ PaymentEventsOf(r) = {}
    /\ req[r].debitDelta = PriceMicros(req[r].in)
    /\ req[r].creditDelta = 0

C8_CreditPathSkipsFacilitator ==
    \A r \in Reqs :
        req[r].mode = "credit"
        => /\ req[r].nVerify = 0 /\ req[r].nSettle = 0
           /\ req[r].verify = "none" /\ req[r].settle = "none"
           /\ req[r].sent # 402
           /\ req[r].sentBody.kind # "x402" /\ req[r].endArgs.kind # "x402"

C8_Witness ==
    \E r \in Reqs :
        /\ req[r].mode = "credit"
        /\ req[r].in.pay = PayProof
        /\ req[r].sent = 200 /\ req[r].sentBody.kind = "upstream"

(***************************************************************************)
(* C9.  A request to a catalogued route without X-PAYMENT header, whose    *)
(* wallet is underfunded at the credit check or whose ledger is disabled,  *)
(* is answered 402 with x402Version 1 and accepts = [requirements], where  *)
(* maxAmountRequired is the route price in micros as a decimal string      *)
(* (0.06 gives "60000"); no handler run, no facilitator call, no ledger    *)
(* mutation.                                                               *)
(***************************************************************************)
UnderfundedOrDisabled(r) ==
    \/ ~ledgerActive
    \/ /\ req[r].nRead = 1
       /\ req[r].readBalance >= 0
       /\ req[r].readBalance < PriceMicros(req[r].in)

C9_ChallengeCarriesPrice ==
    \A r \in Reqs :
        ( /\ Started(r) /\ req[r].stage # "creditCheck"
          /\ Catalogued(req[r].in) /\ CarriesWallet(req[r].in)
          /\ req[r].in.pay.kind = "absent"
          /\ UnderfundedOrDisabled(r) )
        => /\ req[r].sent = 402
           /\ req[r].sentBody.x402Version = 1
           /\ req[r].sentBody.error = "X-PAYMENT header is required"
           /\ Len(req[r].sentBody.accepts) = 1
           /\ DecValue(req[r].sentBody.accepts[1].maxAmountRequired)
                = PriceMicros(req[r].in)
           /\ req[r].in.path = PathChat
                => req[r].sentBody.accepts[1].maxAmountRequired
                     = <<"6", "0", "0", "0", "0">>
           /\ Head(req[r].sentBody.accepts[1].maxAmountRequired) # "0"
           /\ req[r].nHandler = 0
           /\ req[r].nVerify = 0 /\ req[r].nSettle = 0
           /\ LedgerUntouchedBy(r)

C9_Witness ==
    \E r1, r2 \in Reqs :
        /\ ledgerActive
        /\ req[r1].in.path = PathChat /\ req[r1].in.pay.kind = "absent"
        /\ req[r1].readBalance = 20000 /\ req[r1].senderWallet = WalletA
        /\ req[r1].sent = 402
        /\ req[r1].sentBody.accepts = <<[maxAmountRequired |-> <<"6", "0", "0", "0", "0">>]>>
        /\ req[r1].nHandler = 0
        /\ req[r2].in.path = PathChat /\ req[r2].mode = "credit"
        /\ req[r2].sent = 200

(***************************************************************************)
(* C10.  A request with a decodable payment proof for which /verify        *)
(* answers isValid false is answered 402; /settle is never called, the     *)
(* handler never runs, the ledger is not mutated.                          *)
(***************************************************************************)
C10_InvalidProofStopsRequest ==
    \A r \in Reqs :
        req[r].verify = "invalid"
        => /\ req[r].sent = 402
           /\ req[r].sentBody.kind = "x402"
           /\ req[r].nSettle = 0 /\ req[r].settle = "none" /\ ~req[r].settled
           /\ req[r].nHandler = 0 /\ req[r].handler = "none"
           /\ LedgerUntouchedBy(r)

C10_Witness ==
    \E r \in Reqs :
        /\ req[r].verify = "invalid"
        /\ req[r].in.pay = PayProof
        /\ ledgerActive
        /\ req[r].sent = 402 /\ req[r].sentBody.error = "payment_not_verified"

(***************************************************************************)
(* C11.  A payment-path request whose verify succeeded and whose handler   *)
(* ended with an error status (>= 400) has had no /settle call, got the    *)
(* handler's own response, and left the ledger untouched.  handlePayment   *)
(* awaits next(), which returns as soon as the asynchronous proxy handler  *)
(* reaches its upstream call: /settle is called before the handler's       *)
(* status is known, and the statement fails.                               *)
(***************************************************************************)
C11_FailedHandlerNeverSettles ==
    \A r \in Reqs :
        ( /\ req[r].verify = "valid" /\ req[r].hasX402
          /\ req[r].handler = "done" /\ req[r].handlerStatus >= 400 )
        => /\ req[r].nSettle = 0
           /\ req[r].stage = "done" => /\ req[r].sent = req[r].handlerStatus
                                       /\ LedgerUntouchedBy(r)

(***************************************************************************)
(* C12.  Whenever /settle has been called for a request, the handler of    *)
(* that request had completed with a status below 400 when the call was    *)
(* made.  For the proxy routes the handler is still waiting for the        *)
(* upstream when handlePayment calls /settle: the statement fails.         *)
(***************************************************************************)
C12_SettleAfterHandlerSuccess ==
    \A r \in Reqs :
        req[r].nSettle > 0
        => /\ req[r].handlerAtSettle = "done"
           /\ req[r].statusAtSettle > 0 /\ req[r].statusAtSettle < 400

(***************************************************************************)
(* C13.  When /verify answers isValid true and names a payer other than    *)
(* the sender wallet of the request, the request is answered 402           *)
(* sender_wallet_mismatch: no handler run, no /settle call, no ledger      *)
(* mutation.                                                               *)
(***************************************************************************)
C13_PayerMismatchRejected ==
    \A r \in Reqs :
        ( /\ req[r].verify = "valid"
          /\ req[r].verifyPayer # NoWallet
          /\ req[r].verifyPayer # req[r].senderWallet )
        => /\ req[r].sent = 402
           /\ req[r].sentBody = Challenge("sender_wallet_mismatch", req[r].requirements)
           /\ req[r].nHandler = 0 /\ req[r].handler = "none"
           /\ req[r].nSettle = 0 /\ req[r].settle = "none"
           /\ ~req[r].hasX402
           /\ LedgerUntouchedBy(r)

C13_Witness ==
    \E r \in Reqs :
        /\ req[r].verify = "valid"
        /\ req[r].senderWallet = WalletA /\ req[r].verifyPayer = WalletB
        /\ ledgerActive
        /\ req[r].sent = 402 /\ req[r].sentBody.error = "sender_wallet_mismatch"

(***************************************************************************)
(* C14.  No PaymentEvent and no balance credit is recorded for a wallet W  *)
(* from a payment whose payer, as /verify or /settle reported it, is       *)
(* another wallet.  The finish listener only warns when the payer of the   *)
(* /settle answer differs from the wallet and records the payment all the  *)
(* same: the statement fails.                                              *)
(***************************************************************************)
C14_PaymentFundsOnlyItsPayer ==
    /\ \A e \in BagToSet(paymentEvents) : e.payer \in {NoWallet, e.wallet}
    /\ \A r \in Reqs :
          req[r].creditDelta > 0
          => /\ req[r].payer \in {NoWallet, req[r].senderWallet}
             /\ req[r].verifyPayer \in {NoWallet, req[r].senderWallet}

(***************************************************************************)
(* C15.  After a successful settlement of a payment-path request (ledger   *)
(* enabled, every store call of the request answered, no overlapping       *)
(* request of the wallet) and once the request and its ledger task have    *)
(* ended: exactly one PaymentEvent and exactly one UsageEvent with         *)
(* billingMode payment, the balance raised by the price and then lowered   *)
(* by the price.  /settle is called before the handler has ended, so a     *)
(* settled request whose handler then ends >= 400 records nothing: the     *)
(* statement fails.                                                        *)
(***************************************************************************)
SettledAlone(r) ==
    /\ ledgerActive
    /\ req[r].settle = "success"
    /\ ~req[r].concurrent /\ ~req[r].storeError
    /\ req[r].stage = "done" /\ req[r].handler = "done"
    /\ ~LedgerBusy(req[r])

CreditedThenDebited(r) ==
    /\ req[r].led = "ok"
    /\ PaymentEventsOf(r) = {[wallet |-> req[r].senderWallet,
                              amountMicros |-> PriceMicros(req[r].in),
                              payer |-> req[r].payer, req |-> r]}
    /\ \A e \in PaymentEventsOf(r) : CopiesIn(e, paymentEvents) = 1
    /\ UsageEventsOf(r) = {[wallet |-> req[r].senderWallet,
                            amountMicros |-> PriceMicros(req[r].in),
                            billingMode |-> "payment", req |-> r]}
    /\ \A e \in UsageEventsOf(r) : CopiesIn(e, usageEvents) = 1
    /\ req[r].creditDelta = PriceMicros(req[r].in)
    /\ req[r].debitDelta = PriceMicros(req[r].in)

C15_SettledPaymentCreditedThenDebited ==
    \A r \in Reqs :
        /\ SettledAlone(r) => CreditedThenDebited(r)
        /\ (req[r].mode = "payment" /\ req[r].led \in {"ccRead", "ccWrite", "ccInsert", "ok"}
              /\ ~req[r].storeError /\ ~req[r].concurrent)
           => req[r].creditDelta = PriceMicros(req[r].in)

(***************************************************************************)
(* C16.  When /settle fails (it throws on a transport error or a non-2xx   *)
(* answer, or answers success false) and the client has received nothing   *)
(* yet, the client receives a 402 and not the handler's response, and the  *)
(* ledger is not mutated for the request.                                  *)
(***************************************************************************)
C16_FailedSettleAnswers402 ==
    \A r \in Reqs :
        (req[r].settle \in {"threw", "failed"} /\ req[r].sentAtSettle = 0)
        => /\ req[r].sent = 402
           /\ req[r].sentBody.kind = "x402"
           /\ req[r].sentBody.error
                = (IF req[r].settle = "threw" THEN "payment_settlement_failed"
                   ELSE "settlement_failed")
           /\ ~req[r].settled
           /\ LedgerUntouchedBy(r)

C16_Witness ==
    \E r1, r2 \in Reqs :
        /\ ledgerActive
        /\ req[r1].settle = "failed" /\ req[r1].handlerAtSettle = "running"
        /\ req[r1].handler = "done" /\ req[r1].handlerStatus = 200
        /\ req[r1].sent = 402 /\ req[r1].sentBody.error = "settlement_failed"
        /\ req[r2].settle = "threw" /\ req[r2].handler = "done"
        /\ req[r2].sent = 402

(***************************************************************************)
(* C17.  On the payment path the client receives nothing while the         *)
(* /settle call of the request is outstanding, and a handler response      *)
(* below 400 reaches the client only after /settle has returned.           *)
(***************************************************************************)
C17_ResponseHeldUntilSettled ==
    \A r \in Reqs :
        /\ req[r].stage = "settle" => req[r].sent = 0
        /\ ( /\ Catalogued(req[r].in) /\ req[r].mode # "credit"
             /\ req[r].sent # 0 /\ req[r].sent < 400 )
           => /\ req[r].settle = "success"
              /\ req[r].sentAtSettle = 0
              /\ req[r].sentBody.kind = "upstream"

C17_Witness ==
    \E r1, r2 \in Reqs :
        /\ req[r1].stage = "settle" /\ req[r1].handler = "done"
        /\ req[r1].handlerStatus = 200 /\ req[r1].endArgs.kind = "upstream"
        /\ req[r1].sent = 0
        /\ req[r2].settle = "success" /\ req[r2].handlerAtSettle = "running"
        /\ req[r2].sent = 200

(***************************************************************************)
(* C18.  On the credit path a failure of the deferred debit                *)
(* (insufficient_credits or a store error) leaves the response as the      *)
(* caller received it: the handler's status and body, below 400.           *)
(***************************************************************************)
C18_DebitFailureLeavesResponse ==
    \A r \in Reqs :
        (req[r].mode = "credit" /\ req[r].led = "failed")
        => /\ req[r].sent = req[r].handlerStatus
           /\ req[r].sent < 400
           /\ req[r].statusCode = req[r].sent
           /\ req[r].sentBody = Body("upstream", "")
           /\ req[r].stage = "done" /\ req[r].handler = "done"

C18_Witness ==
    \E r1, r2 \in Reqs :
        /\ req[r1].mode = "credit" /\ req[r1].led = "failed" /\ ~req[r1].storeError
        /\ req[r1].readBalance >= req[r1].priceMicros
        /\ req[r1].sent = 200
        /\ req[r2].mode = "credit" /\ req[r2].led = "ok"
        /\ balances[WalletA] < req[r1].priceMicros

CreditReadFailed(r) ==
    req[r].nRead = 1 /\ req[r].readBalance = -1 /\ req[r].stage # "creditCheck"

Undecodable(pay) == pay.kind # "absent" /\ (~pay.strict \/ pay.kind # "json")

C21_UndecodableProofRejected ==
    \A r \in Reqs :
        ( /\ Started(r) /\ req[r].stage # "creditCheck"
          /\ Catalogued(req[r].in) /\ CarriesWallet(req[r].in)
          /\ req[r].mode = "payment"
          /\ Undecodable(req[r].in.pay) )
        => /\ req[r].sent = 402
           /\ req[r].sentBody
                = Challenge("Invalid X-PAYMENT header",
                            buildPaymentRequirements(
                                matchRoute(req[r].in.method, req[r].in.path)))
           /\ req[r].nVerify = 0 /\ req[r].nSettle = 0
           /\ req[r].nHandler = 0
           /\ LedgerUntouchedBy(r)

(***************************************************************************)
(* C22.  When the /verify call fails (transport failure or a non-2xx       *)
(* answer: callFacilitator throws) the request is answered 402             *)
(* payment_verification_failed; no handler run, no /settle call, no ledger *)
(* mutation.                                                               *)
(***************************************************************************)
C22_VerifyFailureAnswers402 ==
    \A r \in Reqs :
        req[r].verify = "threw"
        => /\ req[r].sent = 402
           /\ req[r].sentBody
                = Challenge("payment_verification_failed", req[r].requirements)
           /\ req[r].nHandler = 0 /\ req[r].handler = "none"
           /\ req[r].nSettle = 0 /\ req[r].settle = "none"
           /\ ~req[r].hasX402
           /\ LedgerUntouchedBy(r)

C22_Witness ==
    \E r \in Reqs :
        /\ req[r].verify = "threw" /\ req[r].in.pay = PayProof
        /\ req[r].in.path = PathChat /\ ledgerActive
        /\ req[r].sent = 402
        /\ req[r].sentBody.error = "payment_verification_failed"

(***************************************************************************)
(* C23.  Of two requests of one wallet that carry the same payment proof   *)
(* and are both verified and settled, at most one adds a PaymentEvent and  *)
(* a balance credit.  recordPayment has no idempotency key and adds for    *)
(* every settled request: the statement fails.                             *)
(***************************************************************************)
C23_ReplayedSettlementCountedOnce ==
    \A r1, r2 \in Reqs :
        ( /\ r1 # r2
          /\ req[r1].senderWallet = req[r2].senderWallet
          /\ req[r1].in.pay.kind = "json" /\ req[r1].in.pay = req[r2].in.pay
          /\ req[r1].verify = "valid" /\ req[r2].verify = "valid"
          /\ req[r1].settle = "success" /\ req[r2].settle = "success" )
        => /\ ~(PaymentEventsOf(r1) # {} /\ PaymentEventsOf(r2) # {})
           /\ ~(req[r1].creditDelta > 0 /\ req[r2].creditDelta > 0)

(***************************************************************************)
(* C24.  Whatever a request has done to the ledger (a ledger task started, *)
(* a balance credit or debit, a PaymentEvent, a UsageEvent), its handler   *)
(* had completed with a status below 400.                                  *)
(***************************************************************************)
C24_LedgerOnlyAfterHandlerSuccess ==
    \A r \in Reqs :
        ~LedgerUntouchedBy(r)
        => /\ req[r].handler = "done"
           /\ req[r].handlerStatus > 0 /\ req[r].handlerStatus < 400
           /\ req[r].sent = req[r].handlerStatus

C24_Witness ==
    \E r1, r2 \in Reqs :
        /\ req[r1].mode = "payment" /\ req[r1].handlerAtSettle = "running"
        /\ PaymentEventsOf(r1) # {} /\ UsageEventsOf(r1) # {}
        /\ req[r1].handlerStatus = 200
        /\ req[r2].mode = "credit" /\ UsageEventsOf(r2) # {}

(***************************************************************************)
(* C25.  Once recordPayment has returned (or thrown) for a request that    *)
(* overlapped no other request of its wallet, either the balance was       *)
(* raised by the amount and the PaymentEvent is there, or neither.  The    *)
(* insert and the upsert are separate store calls whose errors are only    *)
(* logged: one can fail and the other stand, and the statement fails.      *)
(***************************************************************************)
RecordPaymentEnded(r) ==
    /\ req[r].listener = "payment" /\ req[r].settled
    /\ req[r].led \in {"ccRead", "ccWrite", "ccInsert", "ok", "failed"}

C25_RecordPaymentAtomic ==
    \A r \in Reqs :
        (RecordPaymentEnded(r) /\ ~req[r].concurrent)
        => \/ /\ req[r].creditDelta = req[r].priceMicros
              /\ PaymentEventsOf(r) # {}
           \/ /\ req[r].creditDelta = 0
              /\ PaymentEventsOf(r) = {}

(***************************************************************************)
(* C26.  Once consumeCredits has lowered the balance, it ends without      *)
(* error whether or not the UsageEvent insert succeeds, and the balance    *)
(* stays lowered by the amount.                                            *)
(***************************************************************************)
C26_DebitStandsWithoutUsageEvent ==
    \A r \in Reqs :
        /\ (req[r].debitDelta # 0 /\ req[r].led # "ccInsert") => req[r].led = "ok"
        /\ (req[r].led = "ok" /\ UsageEventsOf(r) = {})
           => /\ req[r].storeError
              /\ ~req[r].concurrent
                   => /\ req[r].debitDelta = req[r].priceMicros
                      /\ req[r].mode = "credit" => req[r].creditDelta = 0

C26_Witness ==
    \E r \in Reqs :
        /\ req[r].mode = "credit" /\ req[r].in.path = PathChat
        /\ req[r].led = "ok" /\ UsageEventsOf(r) = {} /\ req[r].storeError
        /\ opening[WalletA] = 80000 /\ balances[WalletA] = 20000

(***************************************************************************)
(* C27.  Per request /verify is called at most once and /settle at most    *)
(* once; /settle is called only after a valid verify and with the payload  *)
(* and requirements sent to /verify; the credit check reads at most once;  *)
(* after a failed facilitator call the request has ended, and a failed     *)
(* ledger task is not started again.                                       *)
(***************************************************************************)
C27_NoRetries ==
    \A r \in Reqs :
        /\ req[r].nVerify <= 1 /\ req[r].nSettle <= 1 /\ req[r].nRead <= 1
        /\ req[r].nSettle = 1
             => /\ req[r].verify = "valid" /\ req[r].nVerify = 1
                /\ req[r].settleProof = req[r].verifyProof
                /\ req[r].settleProof = req[r].in.pay.payload
                /\ req[r].requirements
                     = buildPaymentRequirements(matchRoute(req[r].in.method, req[r].in.path))
        /\ req[r].verify \in {"threw", "invalid"}
             => req[r].stage = "done" /\ req[r].nVerify = 1 /\ req[r].nSettle = 0
        /\ req[r].settle \in {"threw", "failed"}
             => req[r].stage = "done" /\ req[r].nSettle = 1 /\ req[r].led = "none"
        /\ req[r].led = "failed"
             => /\ req[r].storeError \/ req[r].concurrent
                /\ \A e \in UsageEventsOf(r) : FALSE

C27_Witness ==
    \E r1, r2 \in Reqs :
        /\ req[r1].settle = "threw" /\ req[r1].nSettle = 1 /\ req[r1].nVerify = 1
        /\ req[r1].handler = "done" /\ req[r1].sent = 402
        /\ req[r2].verify = "threw" /\ req[r2].nVerify = 1 /\ req[r2].sent = 402

(***************************************************************************)
(* C29.  With the ledger enabled and every store call answered, a request  *)
(* whose /settle answered success true has, once it and its ledger task    *)
(* have ended, exactly one PaymentEvent for its sender wallet, and every   *)
(* PaymentEvent belongs to a request whose /settle succeeded.  A request   *)
(* settled before its handler ended >= 400 gets no PaymentEvent: the       *)
(* statement fails.                                                        *)
(***************************************************************************)
C29_OnePaymentEventPerSettlement ==
    /\ \A r \in Reqs :
          ( /\ ledgerActive /\ req[r].settle = "success" /\ ~req[r].storeError
            /\ req[r].stage = "done" /\ req[r].handler = "done"
            /\ ~LedgerBusy(req[r]) )
          => /\ Cardinality(PaymentEventsOf(r)) = 1
             /\ \A e \in PaymentEventsOf(r) :
                   /\ CopiesIn(e, paymentEvents) = 1
                   /\ e.wallet = req[r].senderWallet
    /\ \A e \in BagToSet(paymentEvents) :
          /\ req[e.req].settle = "success"
          /\ CopiesIn(e, paymentEvents) = 1

(***************************************************************************)
(* C30.  A request whose response status is >= 400 has left the ledger     *)
(* untouched and has had no successful /settle.  /settle is called while   *)
(* the handler is still running, so it can succeed for a request that then *)
(* ends with the handler's error status: the statement fails.              *)
(***************************************************************************)
C30_FailedRequestNotCharged ==
    \A r \in Reqs :
        req[r].sent >= 400
        => /\ LedgerUntouchedBy(r)
           /\ req[r].settle # "success"
(***************************************************************************)
(* C31.  The stored balance of every wallet is never negative: every debit *)
(* writes the balance it read less the amount, after checking that the     *)
(* balance it read covers the amount, and every credit writes the balance  *)
(* it read plus the amount.                                                *)
(***************************************************************************)
C31_BalanceNeverNegative ==
    /\ \A w \in Wallets : balances[w] >= 0
    /\ \A r \in Reqs :
          /\ req[r].led = "ccWrite"
             => DecrementedBalance(req[r].local, req[r].priceMicros) >= 0
          /\ req[r].led = "rpWrite"
             => IncrementedBalance(req[r].local, req[r].priceMicros) >= 0

\* Two debits of 60000 were both written against an opening balance of 80000.
C31_Witness ==
    \E r1, r2 \in Reqs :
        /\ r1 # r2
        /\ req[r1].mode = "credit" /\ req[r1].led \in {"ccInsert", "ok"}
        /\ req[r2].mode = "credit" /\ req[r2].led \in {"ccInsert", "ok"}
        /\ debited[WalletA] > opening[WalletA] + credited[WalletA]
        /\ balances[WalletA] >= 0

(***************************************************************************)
(* C32.  A debit that fails leaves the ledger unchanged.  A consumeCredits *)
(* that reads a balance below the amount ends with insufficient_credits,   *)
(* one whose balance read or balance write the store fails ends with the   *)
(* store's error; the failing step changes no balance and appends no       *)
(* event, and the failed debit has lowered no balance and has no           *)
(* UsageEvent.                                                             *)
(***************************************************************************)
DebitErrors == {"insufficient_credits", "balanceError", "updateError"}

DebitFails(r) ==
    /\ req[r].led \in {"ccRead", "ccWrite"}
    /\ req'[r].led = "failed"

C32_FailedDebitLeavesLedger ==
    [][\A r \in Reqs :
          LET w == req[r].senderWallet
              amount == req[r].priceMicros
          IN /\ DebitFails(r)
                => /\ balances' = balances
                   /\ usageEvents' = usageEvents
                   /\ paymentEvents' = paymentEvents
                   /\ req'[r].ledError \in DebitErrors
                   /\ req'[r].ledError = "insufficient_credits"
                      <=> (faults' = faults /\ req[r].led = "ccRead"
                           /\ balances[w] < amount)
                   /\ req'[r].ledError = "updateError"
                      <=> (faults' # faults /\ req[r].led = "ccWrite")
             /\ (req[r].led = "ccRead" /\ req'[r].led # "ccRead"
                 /\ balances[w] < amount)
                => req'[r].led = "failed"
             /\ (req[r].led = "ccWrite" /\ req'[r].led # "ccWrite" /\ faults' # faults)
                => req'[r].led = "failed"
             /\ (req'[r].led = "failed" /\ req'[r].ledError \in DebitErrors)
                => /\ req'[r].debitDelta = 0
                   /\ {e \in BagToSet(usageEvents') : e.req = r} = {}
      ]_vars

\* The balance write of a debit failed: the balance is the opening balance.
C32_Witness ==
    \E r \in Reqs :
        /\ req[r].mode = "credit" /\ req[r].led = "failed"
        /\ req[r].ledError = "updateError"
        /\ req[r].debitDelta = 0 /\ UsageEventsOf(r) = {}
        /\ balances[WalletA] = opening[WalletA] /\ opening[WalletA] = 80000

(***************************************************************************)
(* C33.  With the ledger enabled and the balance read at the credit check  *)
(* answered, the request is on the credit path exactly when the balance    *)
(* read is at least the route's price in micros: a balance equal to the    *)
(* price is granted, and a wallet without credit reads 0 and is not        *)
(* granted.                                                                *)
(***************************************************************************)
C33_CreditGrantedIffBalanceCoversPrice ==
    \A r \in Reqs :
        (req[r].nRead = 1 /\ req[r].readBalance >= 0)
        => /\ ledgerActive /\ Catalogued(req[r].in)
           /\ req[r].mode = "credit" <=> req[r].readBalance >= PriceMicros(req[r].in)
           /\ req[r].listener = (IF req[r].readBalance >= PriceMicros(req[r].in)
                                 THEN "credit" ELSE "payment")
           /\ req[r].readBalance = 0 => req[r].mode # "credit"

\* After a debit of 60000 from 80000 the credit check of a 20000 route reads
\* exactly its price and grants.
C33_Witness ==
    \E r1, r2 \in Reqs :
        /\ req[r1].in.path = PathChat /\ req[r1].led = "ok"
        /\ req[r2].in.path = PathModels /\ req[r2].nRead = 1
        /\ req[r2].readBalance = PriceMicros(req[r2].in)
        /\ req[r2].mode = "credit" /\ req[r2].handler = "done"

(***************************************************************************)
(* C34.  Once the success response of a settled request has been released  *)
(* to the client, the request's PaymentEvent, balance credit and debit are *)
(* complete.  The ledger task is started by the response's "finish" event, *)
(* that is after the response has gone out: the statement fails.           *)
(***************************************************************************)
C34_LedgerCompleteBeforeResponse ==
    \A r \in Reqs :
        ( /\ ledgerActive /\ req[r].mode = "payment" /\ req[r].settle = "success"
          /\ req[r].sent # 0 /\ req[r].sent < 400
          /\ ~req[r].storeError )
        => /\ req[r].led = "ok"
           /\ Cardinality(PaymentEventsOf(r)) = 1
           /\ Cardinality(UsageEventsOf(r)) = 1

(***************************************************************************)
(* C35.  With the ledger enabled and every store call answered without     *)
(* error, a billable request that was delivered with a status below 400    *)
(* and whose ledger task has ended has exactly one successful debit of its *)
(* price: one UsageEvent of its wallet, and a balance write that lowered   *)
(* the balance.  Two requests granted credit from one balance that covers  *)
(* only one of them are both delivered and the second debit fails: the     *)
(* statement fails.                                                        *)
(***************************************************************************)
C35_DeliveredRequestDebitedOnce ==
    \A r \in Reqs :
        ( /\ ledgerActive /\ faults = 0
          /\ Catalogued(req[r].in)
          /\ req[r].sent # 0 /\ req[r].sent < 400
          /\ ~InFlight(req[r]) )
        => /\ req[r].led = "ok"
           /\ Cardinality(UsageEventsOf(r)) = 1
           /\ \A e \in UsageEventsOf(r) :
                 /\ CopiesIn(e, usageEvents) = 1
                 /\ e.wallet = req[r].senderWallet
                 /\ e.amountMicros = PriceMicros(req[r].in)

(***************************************************************************)
(* C36.  Once no request is in flight and every store call was answered    *)
(* without error, each wallet has as many PaymentEvents as UsageEvents of  *)
(* billing mode "payment".  A credit request that is granted from the      *)
(* balance a payment has just credited can debit it before the payment's   *)
(* own debit reads, which then fails: the statement fails.                 *)
(***************************************************************************)
PaymentEventCount(w) ==
    BagCardinality([e \in {x \in BagToSet(paymentEvents) : x.wallet = w}
                       |-> paymentEvents[e]])

PaymentUsageEventCount(w) ==
    BagCardinality([e \in {x \in BagToSet(usageEvents) :
                               x.wallet = w /\ x.billingMode = "payment"}
                       |-> usageEvents[e]])

C36_PaymentEventsMatchPaymentDebits ==
    ( /\ faults = 0
      /\ \A r \in Reqs : ~InFlight(req[r]) )
    => \A w \in Wallets : PaymentEventCount(w) = PaymentUsageEventCount(w)

(***************************************************************************)
(* C37.  One price per route: the maxAmountRequired of a request's payment *)
(* requirements and of the challenge it is sent, the amount the billing    *)
(* middleware attaches to it, and the amounts of its PaymentEvent and      *)
(* UsageEvent are all the catalog price of its route in micros; the lookup *)
(* of the billing middleware and the lookup of the payment guard select    *)
(* the same catalog entry.                                                 *)
(***************************************************************************)
C37_OnePriceEverywhere ==
    \A r \in Reqs :
        Started(r)
        => /\ findRouteConfig(req[r].in.method, req[r].in.path)
              = matchRoute(req[r].in.method, req[r].in.path)
           /\ req[r].mode # "none"
              => Catalogued(req[r].in) /\ req[r].priceMicros = PriceMicros(req[r].in)
           /\ req[r].requirements # NoRequirements
              => /\ Catalogued(req[r].in)
                 /\ DecValue(req[r].requirements.maxAmountRequired)
                    = PriceMicros(req[r].in)
           /\ req[r].sentBody.kind = "x402"
              => /\ Len(req[r].sentBody.accepts) = 1
                 /\ DecValue(req[r].sentBody.accepts[1].maxAmountRequired)
                    = PriceMicros(req[r].in)
           /\ \A e \in PaymentEventsOf(r) \cup UsageEventsOf(r) :
                 e.amountMicros = PriceMicros(req[r].in)

\* One request was challenged for 60000 and another of the same route paid:
\* its PaymentEvent and UsageEvent carry 60000.
C37_Witness ==
    \E r1, r2 \in Reqs :
        /\ req[r1].in.path = PathChat /\ req[r1].sent = 402
        /\ req[r1].sentBody.kind = "x402"
        /\ DecValue(req[r1].sentBody.accepts[1].maxAmountRequired) = 60000
        /\ req[r2].in.path = PathChat /\ req[r2].mode = "payment"
        /\ \E p \in PaymentEventsOf(r2) : p.amountMicros = 60000
        /\ \E u \in UsageEventsOf(r2) : u.amountMicros = 60000

(***************************************************************************)
(* Every call that is outstanding eventually returns: the facilitator's    *)
(* answers, the store's answers and the downstream handler's answer (weak  *)
(* fairness of each return step of each request).  Arrivals are not forced.*)
(***************************************************************************)
CallsReturn ==
    \A r \in Reqs :
        /\ WF_vars(\E ok \in BOOLEAN : CreditCheckReturn(r, ok))
        /\ WF_vars(\E v \in VerifyOutcomes : VerifyReturn(r, v))
        /\ WF_vars(\E s \in SettleOutcomes : SettleReturn(r, s))
        /\ WF_vars(\E status \in HandlerStatuses : HandlerReturn(r, status))
        /\ WF_vars(\E ok \in BOOLEAN : RecordPaymentInsert(r, ok))
        /\ WF_vars(\E ok \in BOOLEAN : IncrementBalanceRead(r, ok))
        /\ WF_vars(\E ok \in BOOLEAN : IncrementBalanceWrite(r, ok))
        /\ WF_vars(\E ok \in BOOLEAN : ConsumeCreditsRead(r, ok))
        /\ WF_vars(\E ok \in BOOLEAN : ConsumeCreditsWrite(r, ok))
        /\ WF_vars(\E ok \in BOOLEAN : ConsumeCreditsInsert(r, ok))

\* The arrivals of the liveness specification: a billable proxy route without
\* and with a proof, a billable route whose handler answers 404 at once, and
\* the welcome page.
LiveInputs ==
    {Req("POST", PathChat, [hdr |-> Absent, body |-> Str(WalletA)], p) :
        p \in {PayAbsent, PayProof}}
    \cup {Req("POST", PathClaude, [hdr |-> Absent, body |-> Str(WalletA)], PayProof),
          Req("GET", PathRoot, [hdr |-> Absent, body |-> Absent], PayAbsent)}

LiveNext ==
    \/ \E r \in Reqs, in \in LiveInputs : Arrive(r, in)
    \/ \E r \in Reqs, ok \in BOOLEAN : CreditCheckReturn(r, ok)
    \/ \E r \in Reqs, v \in VerifyOutcomes : VerifyReturn(r, v)
    \/ \E r \in Reqs, s \in SettleOutcomes : SettleReturn(r, s)
    \/ \E r \in Reqs, status \in HandlerStatuses : HandlerReturn(r, status)
    \/ \E r \in Reqs, ok \in BOOLEAN : RecordPaymentInsert(r, ok)
    \/ \E r \in Reqs, ok \in BOOLEAN : IncrementBalanceRead(r, ok)
    \/ \E r \in Reqs, ok \in BOOLEAN : IncrementBalanceWrite(r, ok)
    \/ \E r \in Reqs, ok \in BOOLEAN : ConsumeCreditsRead(r, ok)
    \/ \E r \in Reqs, ok \in BOOLEAN : ConsumeCreditsWrite(r, ok)
    \/ \E r \in Reqs, ok \in BOOLEAN : ConsumeCreditsInsert(r, ok)

LiveSpec == Init /\ [][LiveNext]_vars /\ CallsReturn

(***************************************************************************)
(* C38.  Provided every outstanding call returns, every request that       *)
(* arrived comes to rest (no middleware, handler or ledger task of it is   *)
(* outstanding) having put exactly one response on the socket; at no time  *)
(* has a request put two responses on the socket, and a response already   *)
(* sent is never replaced.                                                 *)
(***************************************************************************)
AtRest(r) ==
    /\ req[r].stage = "done"
    /\ ~InFlight(req[r])
    /\ ~req[r].endHook

C38_ExactlyOneResponse ==
    /\ \A r \in Reqs : Started(r) ~> (AtRest(r) /\ req[r].nSent = 1 /\ req[r].sent # 0)
    /\ [](\A r \in Reqs : /\ req[r].nSent <= 1
                          /\ req[r].nSent = 1 <=> req[r].sent # 0
                          /\ AtRest(r) => req[r].nSent = 1)

\* Two requests whose /settle failed are at rest with one 402 each: the
\* handler of the first answered after the 402 had gone out (its res.json
\* threw and left status 500 on the response object), the handler of the
\* second had answered while /settle was outstanding.
C38_Witness ==
    \E r1, r2 \in Reqs :
        /\ r1 # r2
        /\ \A r \in {r1, r2} :
              /\ AtRest(r) /\ req[r].settle = "failed"
              /\ req[r].nSent = 1 /\ req[r].sent = 402
              /\ req[r].handler = "done" /\ req[r].handlerStatus = 200
        /\ req[r1].statusCode = 500
        /\ req[r2].statusCode = 402

(***************************************************************************)
(* C39.  Wallet isolation.  A step of a request leaves the balance, the    *)
(* PaymentEvents and the UsageEvents of every wallet other than the        *)
(* request's resolved sender wallet unchanged, and every event in the logs *)
(* carries the sender wallet resolved for the request that wrote it.       *)
(***************************************************************************)
SameEventsOf(w) ==
    /\ \A e \in BagToSet(paymentEvents) \cup BagToSet(paymentEvents') :
          e.wallet = w => CopiesIn(e, paymentEvents') = CopiesIn(e, paymentEvents)
    /\ \A e \in BagToSet(usageEvents) \cup BagToSet(usageEvents') :
          e.wallet = w => CopiesIn(e, usageEvents') = CopiesIn(e, usageEvents)

C39_WalletIsolation ==
    [][/\ \A r \in Reqs :
             (req'[r] # req[r] /\ \A q \in Reqs \ {r} : ~LedgerBusy(req[q]) \/ req'[q] = req[q])
             => \A w \in Wallets \ {ResolveWallet(req'[r].in)} :
                    balances'[w] = balances[w] /\ SameEventsOf(w)
       /\ \A w \in Wallets :
             (balances'[w] # balances[w] \/ ~SameEventsOf(w))
             => \E r \in Reqs : /\ LedgerBusy(req[r]) /\ req'[r] # req[r]
                                /\ req[r].senderWallet = w
                                /\ ResolveWallet(req[r].in) = w
       /\ \A e \in BagToSet(paymentEvents') \cup BagToSet(usageEvents') :
             /\ e.wallet = req'[e.req].senderWallet
             /\ e.wallet = ResolveWallet(req'[e.req].in)
      ]_vars

\* A request of wallet A paid by payer B has been credited and debited and a
\* request of wallet B has been credited: each wallet holds its own events,
\* and wallet A's balance is its opening balance.
C39_Witness ==
    \E r1, r2 \in Reqs :
        /\ req[r1].senderWallet = WalletA /\ req[r1].payer = WalletB
        /\ req[r1].mode = "payment" /\ req[r1].led = "ok"
        /\ req[r2].senderWallet = WalletB /\ req[r2].led = "ccRead"
        /\ balances[WalletB] = req[r2].priceMicros
        /\ balances[WalletA] = opening[WalletA]
        /\ \A e \in PaymentEventsOf(r1) \cup UsageEventsOf(r1) : e.wallet = WalletA
        /\ \E e \in PaymentEventsOf(r2) : e.wallet = WalletB

====
